---- MODULE Spec2Model ----
(***************************************************************************)
(* filehandlers.File: one handle bound to one path of the file system.     *)
(*                                                                         *)
(* A string is a sequence of characters.  The characters are an ordinary   *)
(* letter and the two line-break characters, written LF ("\n") and CR      *)
(* ("\r").  The file system is the one path the handle names: whether it   *)
(* exists and, if so, its bytes.  Text files are opened by open() with the *)
(* default newline handling on a POSIX host: writing stores the string as  *)
(* given, reading translates "\r\n" and "\r" to "\n".                      *)
(***************************************************************************)
EXTENDS Integers, Sequences, FiniteSets, TLC

\* longest string written to, or found in, the file
MaxLen == 3

LF == "LF"
CR == "CR"
Char == {"a", LF, CR}

Strings == UNION {[1..n -> Char] : n \in 0..MaxLen}

VARIABLES
    fileExists,  \* os.path.exists(self.name)
    disk,        \* the bytes of the file (<<>> while it does not exist)
    cacheSet,    \* whether the attribute self.cache has been assigned
    cache,       \* self.cache: a list of lines (<<>> while unassigned)
    call,        \* the method call that produced this state, with its arguments
    prev,        \* the name of the call before it
    ret,         \* what that call returned or raised
    phase,       \* history: "new_absent" from a constructor that found no file
                 \* until a call other than a query; "touched" once touch() is
                 \* called in that phase; "none" otherwise
    seen         \* history: some refresh of this handle found the file existing

vars == <<fileExists, disk, cacheSet, cache, call, prev, ret, phase, seen>>

fs == <<fileExists, disk>>

----------------------------------------------------------------------------
(* Text input and output                                                   *)

\* Reading in text mode (newline=None): "\r\n" and a lone "\r" arrive as "\n".
RECURSIVE TextRead(_)
TextRead(d) ==
    IF d = <<>> THEN <<>>
    ELSE IF Head(d) = CR
         THEN IF Len(d) >= 2 /\ d[2] = LF
              THEN <<LF>> \o TextRead(SubSeq(d, 3, Len(d)))
              ELSE <<LF>> \o TextRead(Tail(d))
         ELSE <<Head(d)>> \o TextRead(Tail(d))

\* Writing in text mode on a POSIX host (os.linesep = "\n") stores the string
\* unchanged.
TextWrite(s) == s

\* fh.readlines() on text: the lines, each keeping its terminating "\n"; the
\* last line has none when the text does not end in "\n".  cur is the line
\* being collected.
RECURSIVE SplitLines(_, _)
SplitLines(text, cur) ==
    IF text = <<>>
    THEN IF cur = <<>> THEN <<>> ELSE <<cur>>
    ELSE IF Head(text) = LF
         THEN <<Append(cur, LF)>> \o SplitLines(Tail(text), <<>>)
         ELSE SplitLines(Tail(text), Append(cur, Head(text)))

readlines(d) == SplitLines(TextRead(d), <<>>)

\* o.read(): the whole text.
read_no_translation(d) == d
read(d) == TextRead(d)

\* line.replace("\n", "")
replace_nothing(line) == line
replace(line) == SelectSeq(line, LAMBDA c : c # LF)

\* list.pop(index), 1-based here
pop(c, i) == SubSeq(c, 1, i - 1) \o SubSeq(c, i + 1, Len(c))

\* The loop of refresh: `for index, element in enumerate(self.cache)` over the
\* list it changes.  The list iterator yields position index while index is
\* within the list's current length, and moves on by one whatever the body
\* did.  The slim test reads the element before its newline is removed.
RECURSIVE StripLoop(_, _, _)
StripLoop(c, index, slim) ==
    IF index > Len(c) THEN c
    ELSE IF slim /\ c[index] = <<>>
         THEN StripLoop(pop(c, index), index + 1, slim)
         ELSE StripLoop([c EXCEPT ![index] = replace(c[index])], index + 1, slim)

----------------------------------------------------------------------------
(* Results of a call                                                       *)

NoRet == [kind |-> "none", b |-> FALSE, s |-> <<>>, l |-> <<>>, err |-> ""]
RetBool(v) == [NoRet EXCEPT !.kind = "bool", !.b = v]
RetStr(v) == [NoRet EXCEPT !.kind = "str", !.s = v]
RetList(v) == [NoRet EXCEPT !.kind = "list", !.l = v]
Raise(e) == [NoRet EXCEPT !.kind = "error", !.err = e]

Call(name, flag, string) == [name |-> name, flag |-> flag, string |-> string]

Called(name, flag, string) ==
    /\ call' = Call(name, flag, string)
    /\ prev' = call.name

----------------------------------------------------------------------------
(* The methods of File                                                     *)

\* refresh(slim) on a handle whose cache attribute is (set, c): the attribute
\* afterwards.
refresh_clears(set, c, slim) ==
    IF ~fileExists
    THEN [set |-> TRUE, lines |-> <<>>]
    ELSE [set |-> TRUE, lines |-> StripLoop(readlines(disk), 1, slim)]
refresh_extends(set, c, slim) ==
    IF ~fileExists
    THEN [set |-> set, lines |-> c]
    ELSE [set |-> TRUE,
          lines |-> IF Len(c) > MaxLen THEN StripLoop(readlines(disk), 1, slim)
                    ELSE c \o StripLoop(readlines(disk), 1, slim)]
refresh_cache(set, c, slim) ==
    IF ~fileExists
    THEN [set |-> set, lines |-> c]
    ELSE [set |-> TRUE, lines |-> StripLoop(readlines(disk), 1, slim)]

\* File(name): a new handle on the path; no cache attribute until the
\* refresh() of the constructor assigns one.
File_init ==
    /\ LET r == refresh_cache(FALSE, <<>>, FALSE)
       IN  cacheSet' = r.set /\ cache' = r.lines
    /\ seen' = fileExists
    /\ phase' = IF fileExists THEN "none" ELSE "new_absent"
    /\ Called("__init__", FALSE, <<>>)
    /\ ret' = NoRet
    /\ UNCHANGED fs

\* open(name, mode="a").close() on a path whose existence is e and whose
\* content is d: the content afterwards (the file exists afterwards).
open_append_truncates(e, d) == <<>>
open_append(e, d) == IF e THEN d ELSE <<>>

touch ==
    /\ fileExists' = TRUE
    /\ disk' = open_append(fileExists, disk)
    /\ phase' = IF phase \in {"new_absent", "touched"} THEN "touched" ELSE "none"
    /\ Called("touch", FALSE, <<>>)
    /\ ret' = NoRet
    /\ UNCHANGED <<cacheSet, cache, seen>>

\* exists(touch_if_false): e is True only in the branch that found the file,
\* and self.touch() is called inside that branch.
exists ==
    \E touch_if_false \in BOOLEAN :
        /\ ret' = RetBool(fileExists)
        /\ IF fileExists /\ touch_if_false
           THEN fileExists' = TRUE /\ disk' = open_append(fileExists, disk)
           ELSE UNCHANGED fs
        /\ Called("exists", touch_if_false, <<>>)
        /\ UNCHANGED <<cacheSet, cache, phase, seen>>

refresh ==
    \E slim \in BOOLEAN :
        /\ LET r == refresh_cache(cacheSet, cache, slim)
           IN  cacheSet' = r.set /\ cache' = r.lines
        /\ seen' = (seen \/ fileExists)
        /\ phase' = "none"
        /\ Called("refresh", slim, <<>>)
        /\ ret' = NoRet
        /\ UNCHANGED fs

\* return self.cache: AttributeError while the attribute was never assigned.
get_cache ==
    /\ ret' = IF cacheSet THEN RetList(cache) ELSE Raise("AttributeError")
    /\ Called("get_cache", FALSE, <<>>)
    /\ UNCHANGED <<fileExists, disk, cacheSet, cache, phase, seen>>

\* open(name, mode="w"); write(string); close()
write_to_file_refreshes ==
    \E string \in Strings :
        /\ fileExists' = TRUE
        /\ disk' = TextWrite(string)
        /\ cacheSet' = TRUE
        /\ cache' = StripLoop(readlines(TextWrite(string)), 1, FALSE)
        /\ phase' = "none"
        /\ Called("write_to_file", FALSE, string)
        /\ ret' = NoRet
        /\ UNCHANGED seen
write_to_file ==
    \E string \in Strings :
        /\ fileExists' = TRUE
        /\ disk' = TextWrite(string)
        /\ phase' = "none"
        /\ Called("write_to_file", FALSE, string)
        /\ ret' = NoRet
        /\ UNCHANGED <<cacheSet, cache, seen>>

\* open(name, mode="w").close()
clear_file ==
    /\ fileExists' = TRUE
    /\ disk' = <<>>
    /\ phase' = "none"
    /\ Called("clear_file", FALSE, <<>>)
    /\ ret' = NoRet
    /\ UNCHANGED <<cacheSet, cache, seen>>

\* open(name, mode="r"); read(); close(): FileNotFoundError on a missing path.
get_file_contents_singlestring ==
    /\ ret' = IF fileExists THEN RetStr(read(disk)) ELSE Raise("FileNotFoundError")
    /\ Called("get_file_contents_singlestring", FALSE, <<>>)
    /\ UNCHANGED <<fileExists, disk, cacheSet, cache, phase, seen>>

\* if self.exists(): os.remove(name); return True / return False
delete_keeps_file ==
    /\ ret' = RetBool(fileExists)
    /\ UNCHANGED fs
    /\ phase' = "none"
    /\ Called("delete", FALSE, <<>>)
    /\ UNCHANGED <<cacheSet, cache, seen>>
delete ==
    /\ ret' = RetBool(fileExists)
    /\ fileExists' = FALSE
    /\ disk' = <<>>
    /\ phase' = "none"
    /\ Called("delete", FALSE, <<>>)
    /\ UNCHANGED <<cacheSet, cache, seen>>

----------------------------------------------------------------------------

\* The file system is in any state when the handle is constructed.
Init ==
    /\ fileExists \in BOOLEAN
    /\ disk \in (IF fileExists THEN Strings ELSE {<<>>})
    /\ LET r == refresh_cache(FALSE, <<>>, FALSE)
       IN  cacheSet = r.set /\ cache = r.lines
    /\ seen = fileExists
    /\ phase = IF fileExists THEN "none" ELSE "new_absent"
    /\ call = Call("__init__", FALSE, <<>>)
    /\ prev = "none"
    /\ ret = NoRet

Next ==
    \/ File_init
    \/ touch
    \/ exists
    \/ refresh
    \/ get_cache
    \/ write_to_file
    \/ clear_file
    \/ get_file_contents_singlestring
    \/ delete

Spec == Init /\ [][Next]_vars

----------------------------------------------------------------------------
(* Properties                                                              *)

\* The lines of a string, stated by position: a line ends at each "\n", at
\* each "\r\n" and at each "\r" that no "\n" follows; a line is the characters
\* between two such ends, the terminator left out.
LineEnds(s) ==
    {i \in 1..Len(s) : \/ s[i] = LF
                       \/ s[i] = CR /\ ~(i < Len(s) /\ s[i + 1] = LF)}

Nth(S, k) == CHOOSE i \in S : Cardinality({j \in S : j <= i}) = k

LinesOf(s) ==
    LET E == LineEnds(s)
        n == Cardinality(E)
        total == IF \E i \in 1..Len(s) : \A e \in E : e < i THEN n + 1 ELSE n
        start(k) == IF k = 1 THEN 1 ELSE Nth(E, k - 1) + 1
        stop(k) == IF k <= n THEN Nth(E, k) ELSE Len(s)
    IN  [k \in 1..total |->
            SelectSeq(SubSeq(s, start(k), stop(k)), LAMBDA c : c \notin {LF, CR})]

\* A string with every "\r\n" and every other "\r" replaced by "\n", stated by
\* position: the "\n" that follows a "\r" is left out, and a "\r" reads "\n".
UniversalNewlines(s) ==
    LET keep == {i \in 1..Len(s) : ~(s[i] = LF /\ i > 1 /\ s[i - 1] = CR)}
    IN  [k \in 1..Cardinality(keep) |->
            IF s[Nth(keep, k)] = CR THEN LF ELSE s[Nth(keep, k)]]

\* C1: exists(touch_if_false=True) on a path that does not exist returns
\* false and creates the file, so that the file exists afterwards.
C1_ExistsTouchCreates ==
    [][(call'.name = "exists" /\ call'.flag /\ ~fileExists)
          => (ret' = RetBool(FALSE) /\ fileExists')]_vars

\* C2: on a handle constructed on a path that did not exist and then touched,
\* with no refresh in between, exists() returns true and get_cache() returns
\* the empty sequence.
C2_TouchedNewHandle ==
    phase = "touched" =>
        /\ call.name = "exists" => ret = RetBool(TRUE)
        /\ call.name = "get_cache" => ret = RetList(<<>>)

\* C3: write_to_file(s) followed by refresh() leaves the cache equal to the
\* lines of s in order, their terminators removed, whatever it held before.
C3_WriteRefreshRoundTrip ==
    [][(call.name = "write_to_file" /\ call'.name = "refresh" /\ ~call'.flag)
          => (cacheSet' /\ cache' = LinesOf(call.string))]_vars

C3_Witness ==
    /\ call.name = "refresh" /\ ~call.flag
    /\ prev = "write_to_file"
    /\ disk = <<"a", LF, "a">>
    /\ cache = << <<"a">>, <<"a">> >>

\* C4 as stated: on an existing file get_file_contents_singlestring() returns
\* exactly the bytes on disk (the string of a write_to_file just before it),
\* and changes neither the cache nor the file.
C4_ReadsExactContent ==
    [][(call'.name = "get_file_contents_singlestring" /\ fileExists)
          => /\ ret' = RetStr(disk)
             /\ call.name = "write_to_file" => ret' = RetStr(call.string)
             /\ UNCHANGED <<fileExists, disk, cacheSet, cache>>]_vars

\* C4 amended: on an existing file get_file_contents_singlestring() returns
\* the content on disk with every "\r\n" and every other "\r" read as "\n"
\* (the content itself when it holds no "\r"; empty after clear_file or after
\* touch on an absent path), whatever the cache holds, and changes neither the
\* cache nor the file.
C4_ReadsTranslatedContent ==
    [][(call'.name = "get_file_contents_singlestring" /\ fileExists)
          => /\ ret' = RetStr(UniversalNewlines(disk))
             /\ (\A i \in 1..Len(disk) : disk[i] # CR) => ret' = RetStr(disk)
             /\ call.name = "clear_file" => ret' = RetStr(<<>>)
             /\ (call.name = "touch" /\ prev = "delete") => ret' = RetStr(<<>>)
             /\ UNCHANGED <<fileExists, disk, cacheSet, cache>>]_vars

C4_Witness ==
    /\ call.name = "get_file_contents_singlestring"
    /\ prev = "write_to_file"
    /\ disk = <<"a", CR, "a">>
    /\ ret = RetStr(<<"a", LF, "a">>)
    /\ cacheSet /\ cache = <<>>

\* C5: delete() returns true exactly when the file existed, raises nothing,
\* leaves the path absent (a following exists() returns false), and changes
\* nothing of the file system when the path was absent already.
C5_Delete ==
    [][/\ call'.name = "delete"
            => /\ ret' = RetBool(fileExists)
               /\ ~fileExists'
               /\ ~fileExists => UNCHANGED fs
       /\ (call.name = "delete" /\ call'.name = "exists") => ret' = RetBool(FALSE)
      ]_vars

C5_Witness ==
    /\ call.name = "delete" /\ prev = "delete"
    /\ ret = RetBool(FALSE)
    /\ ~fileExists

\* C6: refresh(slim=True) on an existing file leaves in the cache, in order,
\* the lines of the file that are not empty once their terminator is removed.
C6_SlimDropsEmptyLines ==
    [][(call'.name = "refresh" /\ call'.flag /\ fileExists)
          => /\ cacheSet'
             /\ \A i \in 1..Len(cache') : cache'[i] # <<>>
             /\ cache' = SelectSeq(LinesOf(disk), LAMBDA l : l # <<>>)]_vars

\* C7: write_to_file, clear_file, touch and delete leave the cache as it was,
\* and the cache of a handle changes only in a refresh that finds the file.
C7_CacheFrame ==
    [][/\ call'.name \in {"write_to_file", "clear_file", "touch", "delete"}
            => UNCHANGED <<cacheSet, cache>>
       /\ (call'.name # "__init__" /\ <<cacheSet, cache>>' # <<cacheSet, cache>>)
            => (call'.name = "refresh" /\ fileExists)
      ]_vars

C7_Witness ==
    /\ call.name = "write_to_file"
    /\ disk = <<"a">>
    /\ cacheSet /\ cache = <<>>

\* C8: touch() creates an empty file when the path is absent, leaves the
\* content of an existing file as it was, and the file exists afterwards.
C8_Touch ==
    [][call'.name = "touch"
          => /\ fileExists'
             /\ fileExists => disk' = disk
             /\ ~fileExists => disk' = <<>>]_vars

C8_Witness ==
    /\ call.name = "touch" /\ prev = "write_to_file"
    /\ fileExists
    /\ disk = <<"a", LF>>

\* C9: a refresh right after a refresh with the same slim argument leaves the
\* cache as the first one left it.
C9_RefreshIdempotent ==
    [][(call.name = "refresh" /\ call'.name = "refresh" /\ call'.flag = call.flag)
          => UNCHANGED <<cacheSet, cache>>]_vars

C9_Witness ==
    /\ call.name = "refresh" /\ prev = "refresh"
    /\ cacheSet /\ cache = << <<"a">>, <<>> >>

====
